---- MODULE Spec2Model ----
(***************************************************************************)
(* Recommendation core of the events platform: the hybrid orchestrator     *)
(* (hybrid_recommender.py) and the collaborative-filtering recommender     *)
(* (collaborative_filtering.py).                                           *)
(*                                                                         *)
(* Numbers.  Scores and confidences are fixed-point with One = 10^6;       *)
(* scorer outputs are multiples of Tenth = 10^5.  Weights are in units of  *)
(* 1/WUnit = 10^-4, which holds every value _adjust_weights can produce    *)
(* from the configured weights exactly.                                    *)
(***************************************************************************)
EXTENDS Integers, Sequences, FiniteSets, TLC

VARIABLES
    pc,          \* position of the request handler get_recommendations
    request,     \* the RecommendationRequest being served
    nInter,      \* len(user_interactions) of the request
    catalogLen,  \* how many events the popularity source can offer
    recs,        \* recommendations_by_algorithm: algorithm -> list of items
    keys,        \* the keys of recommendations_by_algorithm, insertion order
    raised,      \* scorers whose call raised during candidate gathering
    hybrid,      \* hybrid_recommendations, the output of the merge
    response,    \* the RecommendationResponse, or NoResponse
    cbTrained,   \* content_recommender.is_trained
    cf,          \* the CollaborativeFilteringRecommender's fields
    disk,        \* the file collaborative_filtering_model.pkl
    cfOut,       \* the last result of CF get_recommendations
    prev,        \* the categories CB returned for the request in hand and, once
                 \* the request was repeated, the response to its first run
    clock,       \* the wall clock of the analytics service, in minutes
    engine,      \* the RealTimeAnalyticsEngine's fields
    dp,          \* the DataProcessor's fields
    ingest,      \* the queue_event call suspended in event_queue.put, or None
    emitted,     \* what the last analytics step sent out: alerts, active sessions
    call,        \* the last direct call of _interaction_to_rating: argument, result
    pending,     \* history: the metrics whose window took a point since the
                 \* previous iteration of _detect_anomalies_loop
    tasks        \* the background tasks of the analytics service: the status of
                 \* each loop, the workers' is_running flags, the stop call

hybridVars == <<pc, request, nInter, catalogLen, recs, keys, raised, hybrid,
                response, cbTrained>>
cfVars == <<cf, disk, cfOut>>
analyticsVars == <<clock, engine, dp, ingest, emitted, pending, tasks>>
otherVars == <<prev, call, analyticsVars>>
vars == <<pc, request, nInter, catalogLen, recs, keys, raised, hybrid,
          response, cbTrained, cf, disk, cfOut, otherVars>>

----------------------------------------------------------------------------
(* Bounds of the model *)

MaxEvents == 3
MaxCount == 2
MaxFailures == 1

(* Program constants *)

One == 1000000
Tenth == One \div 10
WUnit == 10000
MIN_INTERACTIONS_FOR_CF == 5
ACTIVE_MIN_INTERACTIONS == 20
DIVERSITY_FACTOR == 10
EXPLORATION_FACTOR == 5
COLLABORATIVE_WEIGHT == 4000
CONTENT_WEIGHT == 3500
POPULARITY_WEIGHT == 1500
DIVERSITY_WEIGHT == 1000
CF_CANDIDATE_CAP == 50
POPULARITY_CANDIDATE_CAP == 20
LOCATION_CANDIDATE_CAP == 15
TRENDING_CANDIDATE_CAP == 10

Events == 1..MaxEvents
NoResponse == [none |-> TRUE]
NoRequest == [none |-> TRUE]

Min(a, b) == IF a < b THEN a ELSE b
Max(a, b) == IF a > b THEN a ELSE b

Take(s, n) == SubSeq(s, 1, Min(Len(s), n))

RECURSIVE SeqSum(_)
SeqSum(s) == IF s = <<>> THEN 0 ELSE Head(s) + SeqSum(Tail(s))

EventIds(s) == {s[i].event_id : i \in 1..Len(s)}

(* list.sort(key=score, reverse=True) / sorted(..., reverse=True): stable,  *)
(* equal scores keep their original order.                                  *)
RECURSIVE InsertByScore(_, _)
InsertByScore(x, s) ==
    IF s = <<>> THEN <<x>>
    ELSE IF Head(s).score >= x.score THEN <<Head(s)>> \o InsertByScore(x, Tail(s))
         ELSE <<x>> \o s

RECURSIVE SortByScoreDesc(_)
SortByScoreDesc(s) ==
    IF s = <<>> THEN <<>>
    ELSE InsertByScore(s[Len(s)], SortByScoreDesc(SubSeq(s, 1, Len(s) - 1)))

(* The n-element prefix a Python list slice keeps of an unordered set of    *)
(* reasons: which elements come first is fixed within a process but not by  *)
(* the program.                                                             *)
FirstOf(S, n) ==
    IF Cardinality(S) <= n THEN S
    ELSE CHOOSE T \in SUBSET S : Cardinality(T) = n

----------------------------------------------------------------------------
(* Scorers.  What each scorer returns is data the orchestrator does not    *)
(* control: a ranked list of items.  Here a scorer's ranking of the        *)
(* catalogue is fixed and the environment chooses how many events it has.  *)

CategoryOf(e) == IF e % 2 = 1 THEN "A" ELSE "B"

Item(e, sc, conf, rk, cat, rs, alg) ==
    [event_id |-> e, score |-> sc, confidence |-> conf, rank |-> rk,
     category |-> cat, reasons |-> rs, algorithm |-> alg]

RECURSIVE WithoutEvents(_, _)
WithoutEvents(s, ex) ==
    IF s = <<>> THEN <<>>
    ELSE IF Head(s) \in ex THEN WithoutEvents(Tail(s), ex)
         ELSE <<Head(s)>> \o WithoutEvents(Tail(s), ex)

ScoreAt(i) == Max(1, 10 - 3 * (i - 1)) * Tenth

Ranked(order, conf, reason, alg) ==
    [i \in 1..Len(order) |->
        Item(order[i], ScoreAt(i), conf, i, CategoryOf(order[i]), {reason}, alg)]

(* CB get_recommendations: excluded events skipped, sorted by score, top     *)
(* `count`, with the event's features.                                      *)
CBCandidates(n, count, exclude) ==
    Take(Ranked(WithoutEvents([i \in 1..n |-> MaxEvents + 1 - i], exclude),
                6 * Tenth, "Matches your interest", "content_based"), count)

(* _get_popularity_recommendations(request, count) *)
PopularityOrder(n) == [i \in 1..n |-> (i % MaxEvents) + 1]
PopularityRecommendations(n, count) ==
    Take(Ranked(PopularityOrder(n), 6 * Tenth,
                "Popular event", "popularity_based"), count)

(* _get_location_based_recommendations(request, count) *)
LocationRecommendations(n, count) ==
    Take(Ranked([i \in 1..n |-> MaxEvents + 1 - i], 5 * Tenth,
                "Near you", "location_based"), count)

(* _get_trending_recommendations(request, count) *)
TrendingRecommendations(n, count) ==
    Take(Ranked([i \in 1..n |-> i], 5 * Tenth,
                "Trending", "trending"), count)

----------------------------------------------------------------------------
(* Hybrid orchestrator *)

DetermineUserType(num_interactions) ==
    IF num_interactions = 0 THEN "cold_start"
    ELSE IF num_interactions < MIN_INTERACTIONS_FOR_CF THEN "sparse"
    ELSE IF num_interactions >= ACTIVE_MIN_INTERACTIONS THEN "active"
    ELSE "normal"

TypeWeights(user_type) ==
    IF user_type = "cold_start"
    THEN [collaborative |-> 1000, content |-> 5000, popularity |-> 3000, diversity |-> 1000]
    ELSE IF user_type = "sparse"
    THEN [collaborative |-> 3000, content |-> 4000, popularity |-> 2000, diversity |-> 1000]
    ELSE [collaborative |-> COLLABORATIVE_WEIGHT, content |-> CONTENT_WEIGHT,
          popularity |-> POPULARITY_WEIGHT, diversity |-> DIVERSITY_WEIGHT]

InKeys(ks, k) == \E i \in 1..Len(ks) : ks[i] = k

AdjustWeights(user_type, r, ks) ==
    LET w0 == TypeWeights(user_type)
        w1 == IF InKeys(ks, "collaborative") /\ r["collaborative"] = <<>>
              THEN [w0 EXCEPT !.collaborative = 0,
                              !.content = @ + (w0.collaborative * 6) \div 10,
                              !.popularity = @ + (w0.collaborative * 4) \div 10]
              ELSE w0
        w2 == IF InKeys(ks, "content") /\ r["content"] = <<>>
              THEN [w1 EXCEPT !.content = 0,
                              !.collaborative = @ + (w1.content * 6) \div 10,
                              !.popularity = @ + (w1.content * 4) \div 10]
              ELSE w1
        total == w2.collaborative + w2.content + w2.popularity + w2.diversity
    IN  IF total > 0
        THEN [k \in DOMAIN w2 |-> (w2[k] * WUnit) \div total]
        ELSE w2

WeightOf(w, algorithm) == IF algorithm \in DOMAIN w THEN w[algorithm] ELSE 0

(* rec.score * weight * rec.confidence, in units of 1/One *)
WeightedScore(rec, weight) ==
    (rec.score \div Tenth) * weight * (rec.confidence \div Tenth)

(* every (algorithm, item) pair in dict and list order *)
RECURSIVE Contributions(_, _)
Contributions(r, ks) ==
    IF ks = <<>> THEN <<>>
    ELSE [i \in 1..Len(r[Head(ks)]) |-> [alg |-> Head(ks), rec |-> r[Head(ks)][i]]]
         \o Contributions(r, Tail(ks))

(* event ids in order of first occurrence *)
RECURSIVE FirstOccurrences(_, _)
FirstOccurrences(cs, seen) ==
    IF cs = <<>> THEN <<>>
    ELSE IF Head(cs).rec.event_id \in seen THEN FirstOccurrences(Tail(cs), seen)
         ELSE <<Head(cs)>> \o FirstOccurrences(Tail(cs), seen \cup {Head(cs).rec.event_id})

RECURSIVE TotalScore(_, _, _)
TotalScore(cs, e, w) ==
    IF cs = <<>> THEN 0
    ELSE (IF Head(cs).rec.event_id = e
          THEN WeightedScore(Head(cs).rec, WeightOf(w, Head(cs).alg)) ELSE 0)
         + TotalScore(Tail(cs), e, w)

RECURSIVE MaxConfidence(_, _)
MaxConfidence(cs, e) ==
    IF cs = <<>> THEN 0
    ELSE Max(IF Head(cs).rec.event_id = e THEN Head(cs).rec.confidence ELSE 0,
             MaxConfidence(Tail(cs), e))

AllReasons(cs, e) ==
    UNION {cs[i].rec.reasons : i \in {j \in 1..Len(cs) : cs[j].rec.event_id = e}}

CombineRecommendations(r, ks, req, user_type) ==
    LET w == AdjustWeights(user_type, r, ks)
        cs == Contributions(r, ks)
        firsts == FirstOccurrences(cs, {})
        scored == [i \in 1..Len(firsts) |->
                     [firsts[i].rec EXCEPT !.score = TotalScore(cs, firsts[i].rec.event_id, w)]]
        sorted_events == Take(SortByScoreDesc(scored), req.count * 2)
    IN  [rk \in 1..Len(sorted_events) |->
            Item(sorted_events[rk].event_id,
                 Min(One, sorted_events[rk].score),
                 MaxConfidence(cs, sorted_events[rk].event_id),
                 rk,
                 sorted_events[rk].category,
                 FirstOf(AllReasons(cs, sorted_events[rk].event_id), 3),
                 "hybrid")]

(* rec.category or 'unknown' *)
CategoryKey(rec) == IF rec.category = "" THEN "unknown" ELSE rec.category

(* keys of category_groups, in insertion order *)
RECURSIVE CategoryOrder(_, _)
CategoryOrder(s, seen) ==
    IF s = <<>> THEN <<>>
    ELSE IF CategoryKey(Head(s)) \in seen THEN CategoryOrder(Tail(s), seen)
         ELSE <<CategoryKey(Head(s))>> \o CategoryOrder(Tail(s), seen \cup {CategoryKey(Head(s))})

(* index of max(category_items, key=score): the first item of the category  *)
(* with the highest score, 0 when the category has no item left             *)
BestIndex(remaining, category) ==
    LET idx == {i \in 1..Len(remaining) : CategoryKey(remaining[i]) = category}
    IN  IF idx = {} THEN 0
        ELSE CHOOSE i \in idx :
                \A j \in idx : remaining[j].score < remaining[i].score
                               \/ (remaining[j].score = remaining[i].score /\ j >= i)

RemoveAt(s, i) == SubSeq(s, 1, i - 1) \o SubSeq(s, i + 1, Len(s))

(* one pass of the for loop over category_groups *)
RECURSIVE RoundRobinPass(_, _, _, _, _)
RoundRobinPass(cats, diversified, remaining, took, n) ==
    IF cats = <<>> THEN [diversified |-> diversified, remaining |-> remaining, took |-> took]
    ELSE LET i == BestIndex(remaining, Head(cats))
         IN  IF i = 0 THEN RoundRobinPass(Tail(cats), diversified, remaining, took, n)
             ELSE IF Len(diversified) + 1 >= n
                  THEN [diversified |-> Append(diversified, remaining[i]),
                        remaining |-> RemoveAt(remaining, i), took |-> TRUE]
                  ELSE RoundRobinPass(Tail(cats), Append(diversified, remaining[i]),
                                      RemoveAt(remaining, i), TRUE, n)

(* the while loop *)
RECURSIVE RoundRobin(_, _, _, _, _)
RoundRobin(cats, diversified, remaining, round_robin, n) ==
    IF remaining = <<>> \/ ~round_robin
    THEN [diversified |-> diversified, remaining |-> remaining]
    ELSE LET p == RoundRobinPass(cats, diversified, remaining, FALSE, n)
         IN  IF Len(p.diversified) >= n
             THEN [diversified |-> p.diversified, remaining |-> p.remaining]
             ELSE RoundRobin(cats, p.diversified, p.remaining, p.took, n)

DiversifyRecommendations(recommendations, diversity_factor, raises) ==
    IF raises THEN recommendations
    ELSE IF diversity_factor <= 0 \/ recommendations = <<>> THEN recommendations
    ELSE LET n == Len(recommendations)
             rr == RoundRobin(CategoryOrder(recommendations, {}), <<>>,
                              recommendations, TRUE, n)
         IN  rr.diversified
             \o Take(SortByScoreDesc(rr.remaining), n - Len(rr.diversified))

RECURSIVE NotIn(_, _)
NotIn(s, ids) ==
    IF s = <<>> THEN <<>>
    ELSE IF Head(s).event_id \in ids THEN NotIn(Tail(s), ids)
         ELSE <<Head(s)>> \o NotIn(Tail(s), ids)

ExplorationCount(n) == Max(1, (n * EXPLORATION_FACTOR) \div 100)

MarkExploration(rec) ==
    [rec EXCEPT !.reasons = {"Explore something new"} \cup FirstOf(rec.reasons, 2),
                !.algorithm = "hybrid",
                !.score = (rec.score * 8) \div 10]

(* recommendations[:-k] *)
DropLast(s, k) == SubSeq(s, 1, Len(s) - k)

(* the pool hands out the objects it handed out before: an event that the   *)
(* first run of the request injected still carries the marks of that run    *)
AddExplorationItemsShared(recommendations, pool_size, raises) ==
    IF raises THEN recommendations
    ELSE LET exploration_count == ExplorationCount(Len(recommendations))
             current_event_ids == EventIds(recommendations)
             earlier == IF "response" \notin DOMAIN prev \/ prev.response = NoResponse
                        THEN <<>>
                        ELSE prev.response.recommendations
             marked == {earlier[i].event_id : i \in
                           {j \in 1..Len(earlier) :
                               "Explore something new" \in earlier[j].reasons}}
             handed == PopularityRecommendations(pool_size, exploration_count * 2)
             pool == [i \in 1..Len(handed) |->
                         IF handed[i].event_id \in marked
                         THEN MarkExploration(handed[i]) ELSE handed[i]]
             fresh == Take(NotIn(pool, current_event_ids), exploration_count)
             exploration_recs == [i \in 1..Len(fresh) |-> MarkExploration(fresh[i])]
         IN  SortByScoreDesc(DropLast(recommendations, exploration_count)
                             \o exploration_recs)

\* AddExplorationItems without the final sort by score
AddExplorationItemsUnsorted(recommendations, pool_size, raises) ==
    IF raises THEN recommendations
    ELSE LET exploration_count == ExplorationCount(Len(recommendations))
             current_event_ids == EventIds(recommendations)
             pool == PopularityRecommendations(pool_size, exploration_count * 2)
             fresh == Take(NotIn(pool, current_event_ids), exploration_count)
             exploration_recs == [i \in 1..Len(fresh) |-> MarkExploration(fresh[i])]
         IN  DropLast(recommendations, exploration_count) \o exploration_recs

AddExplorationItems(recommendations, pool_size, raises) ==
    IF raises THEN recommendations
    ELSE LET exploration_count == ExplorationCount(Len(recommendations))
             current_event_ids == EventIds(recommendations)
             pool == PopularityRecommendations(pool_size, exploration_count * 2)
             fresh == Take(NotIn(pool, current_event_ids), exploration_count)
             exploration_recs == [i \in 1..Len(fresh) |-> MarkExploration(fresh[i])]
         IN  SortByScoreDesc(DropLast(recommendations, exploration_count)
                             \o exploration_recs)

(* request.diversity_factor or settings.DIVERSITY_FACTOR: None and 0.0 both *)
(* select the configured default                                            *)
EffectiveDiversity(req) ==
    IF req.diversity_factor = 0 THEN DIVERSITY_FACTOR ELSE req.diversity_factor

(* the ranks are left as the earlier stages set them *)
RerankSkipped(s) == s

(* for i, rec in enumerate(final_recommendations, 1): rec.rank = i *)
Rerank(s) == [i \in 1..Len(s) |-> [s[i] EXCEPT !.rank = i]]

ApplyDiversityAndExploration(recommendations, req, pool_size, div_raises, expl_raises) ==
    IF recommendations = <<>> THEN recommendations
    ELSE LET diversified == IF EffectiveDiversity(req) > 0
                            THEN DiversifyRecommendations(recommendations,
                                     EffectiveDiversity(req), div_raises)
                            ELSE recommendations
             explored == IF EXPLORATION_FACTOR > 0
                         THEN AddExplorationItems(diversified, pool_size, expl_raises)
                         ELSE diversified
         IN  Rerank(Take(explored, req.count))

AlgorithmEnum(alg) ==
    CASE alg = "collaborative" -> "collaborative_filtering"
      [] alg = "content" -> "content_based"
      [] alg = "popularity" -> "popularity_based"
      [] alg = "location" -> "location_based"
      [] alg = "trending" -> "trending"
      [] OTHER -> "hybrid"

(* max(algorithm_counts.items(), key=count)[0]: the first key with the most *)
GetDominantAlgorithm(r, ks) ==
    IF ks = <<>> THEN "hybrid"
    ELSE LET i == CHOOSE i \in 1..Len(ks) :
                     \A j \in 1..Len(ks) :
                         Len(r[ks[j]]) < Len(r[ks[i]])
                         \/ (Len(r[ks[j]]) = Len(r[ks[i]]) /\ j >= i)
         IN  AlgorithmEnum(ks[i])

BuildResponse(final, r, ks, n_interactions) ==
    [recommendations |-> final,
     total_count |-> Len(final),
     algorithm_used |-> GetDominantAlgorithm(r, ks),
     cold_start_user |-> DetermineUserType(n_interactions) = "cold_start",
     fallback_used |-> n_interactions < MIN_INTERACTIONS_FOR_CF]

----------------------------------------------------------------------------
(* Collaborative-filtering recommender.  Ratings are in tenths.  The        *)
(* factors and biases that the NMF fit computes from a matrix R are         *)
(* represented by the matrix they were computed from ([of |-> R]).          *)

None == [none |-> TRUE]
IsNone(x) == "none" \in DOMAIN x

Interaction(u, e, t, r, d) ==
    [user_id |-> u, event_id |-> e, interaction_type |-> t, rating |-> r,
     duration_seconds |-> d]

(* training sets offered to train(): rating 0 stands for "no rating"        *)
SmallSet ==
    << Interaction(1, 1, "register", 0, 0), Interaction(2, 2, "like", 0, 0) >>
FirstSet ==
    << Interaction(1, 1, "register", 0, 0), Interaction(1, 2, "like", 0, 0),
       Interaction(2, 1, "rate", 5, 0),     Interaction(2, 2, "rate", 5, 0),
       Interaction(2, 3, "view", 0, 0) >>
SecondSet ==
    << Interaction(3, 2, "click", 0, 0),    Interaction(3, 3, "like", 0, 0),
       Interaction(1, 3, "register", 0, 0), Interaction(3, 1, "view", 0, 400),
       Interaction(1, 2, "comment", 0, 0),  Interaction(3, 2, "view", 0, 100) >>
TrainingSets == {SmallSet, FirstSet, SecondSet}
CFUsers == {1, 2, 3}

InteractionToRating(interaction) ==
    IF interaction.rating # 0 THEN interaction.rating * 10
    ELSE LET t == interaction.interaction_type
             base_rating ==
                 CASE t = "register" -> 50
                   [] t \in {"like", "save", "share"} -> 40
                   [] t = "click" -> 30
                   [] t = "view" -> 20
                   [] t = "comment" -> 35
                   [] OTHER -> 20
             bonus ==
                 IF t = "view" /\ interaction.duration_seconds # 0
                 THEN IF interaction.duration_seconds > 300 THEN 10
                      ELSE IF interaction.duration_seconds > 60 THEN 5 ELSE 0
                 ELSE 0
         IN  Min(50, base_rating + bonus)

(* df[col].unique(): values in order of first appearance *)
RECURSIVE Unique(_, _)
Unique(s, seen) ==
    IF s = <<>> THEN <<>>
    ELSE IF Head(s) \in seen THEN Unique(Tail(s), seen)
         ELSE <<Head(s)>> \o Unique(Tail(s), seen \cup {Head(s)})

IndexOf(s, x) == CHOOSE i \in 1..Len(s) : s[i] = x
Contains(s, x) == \E i \in 1..Len(s) : s[i] = x

(* csr_matrix((rating, (user_idx, event_idx)), shape): entries given for    *)
(* the same cell are added up                                               *)
RECURSIVE CellSum(_, _, _)
CellSum(interactions, u, e) ==
    IF interactions = <<>> THEN 0
    ELSE (IF Head(interactions).user_id = u /\ Head(interactions).event_id = e
          THEN InteractionToRating(Head(interactions)) ELSE 0)
         + CellSum(Tail(interactions), u, e)

BuildMatrix(interactions) ==
    LET unique_users == Unique([i \in 1..Len(interactions) |-> interactions[i].user_id], {})
        unique_events == Unique([i \in 1..Len(interactions) |-> interactions[i].event_id], {})
    IN  [users |-> unique_users, events |-> unique_events,
         R |-> [i \in 1..Len(unique_users) |->
                  [j \in 1..Len(unique_events) |->
                      CellSum(interactions, unique_users[i], unique_events[j])]]]

CFInitial ==
    [user_encoder |-> <<>>, event_encoder |-> <<>>,
     user_decoder |-> <<>>, event_decoder |-> <<>>,
     interaction_matrix |-> None,
     user_factors |-> None, item_factors |-> None,
     user_bias |-> None, item_bias |-> None, global_bias |-> None,
     is_trained |-> FALSE, model_version |-> "1.0.0"]

Factors(m, rows) == [of |-> m, rows |-> rows]

(* _train_matrix_factorization; it raises before the factors are assigned   *)
(* when the fit fails                                                       *)
TrainMatrixFactorization(c, fit_fails) ==
    IF fit_fails THEN c
    ELSE LET m == c.interaction_matrix
         IN  [c EXCEPT !.user_factors = Factors(m, Len(m.users)),
                       !.item_factors = Factors(m, Len(m.events)),
                       !.global_bias = Factors(m, 1),
                       !.user_bias = Factors(m, Len(m.users)),
                       !.item_bias = Factors(m, Len(m.events))]

(* train(), up to the save: the fields of the recommender after it *)
Train(c, interactions, fit_fails) ==
    IF Len(interactions) < MIN_INTERACTIONS_FOR_CF THEN c
    ELSE LET m == BuildMatrix(interactions)
             c1 == [c EXCEPT !.user_encoder = m.users, !.event_encoder = m.events,
                             !.user_decoder = m.users, !.event_decoder = m.events,
                             !.interaction_matrix = m]
             c2 == TrainMatrixFactorization(c1, fit_fails)
         IN  IF fit_fails THEN c2 ELSE [c2 EXCEPT !.is_trained = TRUE]

SnapshotKeys ==
    << "user_encoder", "event_encoder", "user_decoder", "event_decoder",
       "user_factors", "item_factors", "user_bias", "item_bias", "global_bias" >>

(* model_data of _save_model *)
ModelData(c) ==
    [user_encoder |-> c.user_encoder, event_encoder |-> c.event_encoder,
     user_decoder |-> c.user_decoder, event_decoder |-> c.event_decoder,
     user_factors |-> c.user_factors, item_factors |-> c.item_factors,
     user_bias |-> c.user_bias, item_bias |-> c.item_bias,
     global_bias |-> c.global_bias, model_version |-> c.model_version]

NoFile == [state |-> "absent"]
PartialFile == [state |-> "partial"]
CompleteFile(data, missing) == [state |-> "complete", data |-> data, missing |-> missing]

(* _save_model: open(model_path, 'wb') truncates the file in place and      *)
(* pickle.dump writes into it; when the write stops part-way (an exception, *)
(* which is logged and swallowed, or the process dying) the file at the     *)
(* model path is a prefix of the pickle                                     *)
SaveModel(c, write_completes) ==
    IF write_completes THEN CompleteFile(ModelData(c), {}) ELSE PartialFile

(* load_model: the assignments in source order; a missing key raises        *)
(* KeyError at its assignment, which is caught after the earlier ones ran   *)
RECURSIVE LoadFields(_, _, _, _)
LoadFields(c, data, missing, i) ==
    IF i > Len(SnapshotKeys)
    THEN [c EXCEPT !.model_version = data.model_version, !.is_trained = TRUE]
    ELSE IF SnapshotKeys[i] \in missing THEN c
    ELSE LoadFields([c EXCEPT ![SnapshotKeys[i]] = data[SnapshotKeys[i]]],
                    data, missing, i + 1)

LoadModel(c, file) ==
    IF file.state = "absent" THEN c
    ELSE IF file.state = "partial" THEN c
    ELSE LoadFields(c, file.data, file.missing, 1)

ColumnSum(m, j) == SeqSum([i \in 1..Len(m.users) |-> m.R[i][j]])

Reverse(s) == [i \in 1..Len(s) |-> s[Len(s) + 1 - i]]

(* indices 1..n ordered by key, ascending, equal keys in index order *)
RECURSIVE InsertAscending(_, _, _)
InsertAscending(j, s, key) ==
    IF s = <<>> THEN <<j>>
    ELSE IF key[Head(s)] <= key[j] THEN <<Head(s)>> \o InsertAscending(j, Tail(s), key)
         ELSE <<j>> \o s

RECURSIVE ArgSort(_, _)
ArgSort(key, n) ==
    IF n = 0 THEN <<>> ELSE InsertAscending(n, ArgSort(key, n - 1), key)

(* indices 1..n ordered by key, descending, equal keys in index order *)
RECURSIVE InsertDescending(_, _, _)
InsertDescending(j, s, key) ==
    IF s = <<>> THEN <<j>>
    ELSE IF key[Head(s)] >= key[j] THEN <<Head(s)>> \o InsertDescending(j, Tail(s), key)
         ELSE <<j>> \o s

RECURSIVE ArgSortDescending(_, _)
ArgSortDescending(key, n) ==
    IF n = 0 THEN <<>> ELSE InsertDescending(n, ArgSortDescending(key, n - 1), key)

(* indices of the events of exclude_events that the encoder knows *)
ExcludeIndices(event_encoder, exclude_events) ==
    {j \in 1..Len(event_encoder) : event_encoder[j] \in exclude_events}

Failed == [ok |-> FALSE, items |-> <<>>]
Returned(items) == [ok |-> TRUE, items |-> items]

(* the loop that builds the items: skip excluded indices, stop at `count`,  *)
(* decode the index (KeyError when the decoder has no such index)           *)
RECURSIVE CollectIndices(_, _, _, _, _)
CollectIndices(order, acc, count, exclude_indices, event_decoder) ==
    IF order = <<>> THEN Returned(acc)
    ELSE IF Head(order) \in exclude_indices
         THEN CollectIndices(Tail(order), acc, count, exclude_indices, event_decoder)
    ELSE IF Len(acc) >= count THEN Returned(acc)
    ELSE IF Head(order) > Len(event_decoder) THEN Failed
    ELSE CollectIndices(Tail(order), Append(acc, Head(order)), count,
                        exclude_indices, event_decoder)

(* _get_popularity_based_recommendations *)
PopularityBasedRecommendations(c, count, exclude_events) ==
    IF IsNone(c.interaction_matrix) THEN <<>>
    ELSE LET m == c.interaction_matrix
             n == Len(m.events)
             event_popularity == [j \in 1..n |-> ColumnSum(m, j)]
             popular_indices == Reverse(ArgSort(event_popularity, n))
             max_popularity ==
                 LET mx == CHOOSE x \in {event_popularity[j] : j \in 1..n} :
                               \A j \in 1..n : event_popularity[j] <= x
                 IN  IF mx > 0 THEN mx ELSE 1
             make(j, rk) ==
                 Item(c.event_decoder[j], (event_popularity[j] * One) \div max_popularity,
                      6 * Tenth, rk, "", {"Popular event among all users"},
                      "popularity_based")
             picked == CollectIndices(popular_indices, <<>>, count,
                           ExcludeIndices(c.event_encoder, exclude_events),
                           c.event_decoder)
         IN  IF picked.ok
             THEN [k \in 1..Len(picked.items) |-> make(picked.items[k], k)]
             ELSE <<>>

(* get_recommendations of the CF recommender.  The predicted rating of an   *)
(* event stands for W[i].H[j] + biases: here the column mean of the matrix  *)
(* the item factors were fitted to.                                         *)
CFGetRecommendations(c, user_id, count, exclude_events) ==
    IF ~c.is_trained THEN <<>>
    ELSE IF ~Contains(c.user_encoder, user_id)
    THEN PopularityBasedRecommendations(c, count, exclude_events)
    ELSE LET user_idx == IndexOf(c.user_encoder, user_id)
         IN  IF \/ IsNone(c.user_factors) \/ IsNone(c.item_factors)
                \/ IsNone(c.user_bias) \/ IsNone(c.item_bias)
                \/ IsNone(c.interaction_matrix)
             THEN <<>>
             ELSE IF \/ user_idx > c.user_factors.rows
                     \/ user_idx > c.user_bias.rows
                     \/ c.item_bias.rows # c.item_factors.rows
                     \/ user_idx > Len(c.interaction_matrix.users)
             THEN <<>>
             ELSE LET fitted == c.item_factors.of
                      n == c.item_factors.rows
                      predicted_ratings ==
                          [j \in 1..n |-> ColumnSum(fitted, j) \div Len(fitted.users)]
                      m == c.interaction_matrix
                      user_interactions ==
                          {j \in 1..Len(m.events) : m.R[user_idx][j] # 0}
                      exclude_indices ==
                          user_interactions
                          \cup ExcludeIndices(c.event_encoder, exclude_events)
                      confidence ==
                          Min(9 * Tenth, 5 * Tenth + Cardinality(user_interactions) * (One \div 100))
                      make(j, rk) ==
                          Item(c.event_decoder[j],
                               Min(One, Max(0, (predicted_ratings[j] * One) \div 50)),
                               confidence, rk, "",
                               {"Users with similar preferences also liked this event"},
                               "collaborative_filtering")
                      picked == CollectIndices(ArgSortDescending(predicted_ratings, n),
                                    <<>>, count, exclude_indices, c.event_decoder)
                  IN  IF picked.ok
                      THEN [k \in 1..Len(picked.items) |-> make(picked.items[k], k)]
                      ELSE <<>>

(* whether every field get_recommendations reads comes from one training    *)
(* run: the encoders, factors and biases all belong to the stored matrix    *)
SameRun(c) ==
    /\ ~IsNone(c.interaction_matrix)
    /\ c.user_encoder = c.interaction_matrix.users
    /\ c.event_encoder = c.interaction_matrix.events
    /\ c.user_decoder = c.user_encoder
    /\ c.event_decoder = c.event_encoder
    /\ \A f \in {"user_factors", "item_factors", "user_bias", "item_bias", "global_bias"} :
          ~IsNone(c[f]) /\ c[f].of = c.interaction_matrix

----------------------------------------------------------------------------
(* Background tasks of the analytics service *)

\* the loops started by RealTimeAnalyticsEngine._start_background_tasks
EngineLoops ==
    {"compute_metrics", "analyze_trends", "detect_anomalies", "cleanup"}

\* the loops started by start_background_workers, each with the worker whose
\* is_running flag its while condition reads
WorkerLoops ==
    [event_processing |-> "data_processor",
     batch_processing |-> "data_processor",
     report_queue_processor |-> "report_generator",
     hourly_aggregation |-> "metric_aggregator",
     daily_aggregation |-> "metric_aggregator",
     user_segmentation |-> "data_processor"]

(* after initialize() of the engine and start_background_workers(): every  *)
(* loop is a task waiting at an await, every worker's is_running is set,   *)
(* stop_background_workers was not called                                  *)
TasksInitial ==
    [status |-> [t \in EngineLoops \cup DOMAIN WorkerLoops |-> "waiting"],
     is_running |-> [w \in {WorkerLoops[t] : t \in DOMAIN WorkerLoops} |-> TRUE],
     stop |-> "idle"]

(* stop_background_workers, up to its await on gather: task.cancel() on    *)
(* every task of worker_tasks that is not done.  The tasks of the engine   *)
(* are not in worker_tasks: create_task's results were not kept.           *)
StopBackgroundWorkers ==
    /\ tasks.stop = "idle"
    /\ tasks' = [tasks EXCEPT
                   !.stop = "gathering",
                   !.status = [t \in DOMAIN @ |->
                                  IF t \in DOMAIN WorkerLoops /\ @[t] # "done"
                                    THEN "cancelled" ELSE @[t]]]
    /\ UNCHANGED <<hybridVars, cfVars, prev, call, pending, clock, engine, dp,
                   ingest, emitted>>

(* a cancelled task is resumed: CancelledError is raised at its await; it  *)
(* is not an Exception, so the loop's except clause lets it through and    *)
(* the task ends                                                           *)
TaskCancelled(t) ==
    /\ tasks.status[t] = "cancelled"
    /\ tasks' = [tasks EXCEPT !.status[t] = "done"]
    /\ UNCHANGED <<hybridVars, cfVars, prev, call, pending, clock, engine, dp,
                   ingest, emitted>>

(* stop_background_workers after gather returned: the cleanup() of the     *)
(* three workers clears their is_running flags                             *)
GatherReturns ==
    /\ tasks.stop = "gathering"
    /\ \A t \in DOMAIN WorkerLoops : tasks.status[t] = "done"
    /\ tasks' = [tasks EXCEPT
                   !.stop = "stopped",
                   !.is_running = [w \in DOMAIN @ |-> FALSE]]
    /\ UNCHANGED <<hybridVars, cfVars, prev, call, pending, clock, engine, dp,
                   ingest, emitted>>

----------------------------------------------------------------------------
(* Actions of the hybrid orchestrator *)

Algorithms == {"collaborative", "content", "popularity", "location", "trending"}
NoCandidates == [a \in Algorithms |-> <<>>]
ExcludeChoices == {{}, {2}}
InteractionCounts == {0, 4, 5, 20}
DiversityChoices == {0, 100}

UserType == DetermineUserType(nInter)

(* train_models: CF is trained when there are enough interactions, CB when  *)
(* there is event data                                                      *)
TrainModels(interactions_data, has_events_data) ==
    /\ pc = "idle"
    /\ IF Len(interactions_data) >= MIN_INTERACTIONS_FOR_CF
       THEN /\ cf' = Train(cf, interactions_data, FALSE)
            /\ disk' = SaveModel(cf', TRUE)
       ELSE UNCHANGED <<cf, disk>>
    /\ cbTrained' = (cbTrained \/ has_events_data)
    /\ UNCHANGED <<pc, request, nInter, catalogLen, recs, keys, raised, hybrid,
                   response, cfOut, otherVars>>

(* get_recommendations is entered *)
Request(user_id, count, exclude, diversity, has_location, n_interactions, catalogue) ==
    /\ pc = "idle"
    /\ request' = [user_id |-> user_id, count |-> count, exclude_events |-> exclude,
                   diversity_factor |-> diversity, location |-> has_location]
    /\ nInter' = n_interactions
    /\ catalogLen' = catalogue
    /\ recs' = NoCandidates
    /\ keys' = <<>>
    /\ raised' = {}
    /\ hybrid' = <<>>
    /\ response' = NoResponse
    /\ pc' = "gather_cf"
    /\ UNCHANGED <<cbTrained, cf, disk, cfOut, otherVars>>

(* one try/except around all scorers: a raise abandons the gathering *)
GatheredAborts(algorithm, result, did_raise, next_pc) ==
    /\ recs' = [recs EXCEPT ![algorithm] = IF did_raise THEN <<>> ELSE result]
    /\ keys' = IF did_raise THEN keys ELSE Append(keys, algorithm)
    /\ raised' = IF did_raise THEN raised \cup {algorithm} ELSE raised
    /\ pc' = IF did_raise THEN "combine" ELSE next_pc
    /\ UNCHANGED <<request, nInter, catalogLen, hybrid, response, cbTrained,
                   cf, disk, cfOut, otherVars>>

(* one scorer's block of _get_multi_algorithm_recommendations has run: the  *)
(* key is set to what the scorer returned, or to [] when it raised          *)
Gathered(algorithm, result, did_raise, next_pc) ==
    /\ recs' = [recs EXCEPT ![algorithm] = IF did_raise THEN <<>> ELSE result]
    /\ keys' = Append(keys, algorithm)
    /\ raised' = IF did_raise THEN raised \cup {algorithm} ELSE raised
    /\ pc' = next_pc
    /\ UNCHANGED <<request, nInter, catalogLen, hybrid, response, cbTrained,
                   cf, disk, cfOut, otherVars>>

MayRaise(did_raise) == did_raise => Cardinality(raised) < MaxFailures

(* CF is consulted whenever it is trained, whatever the user type *)
GatherCFAnyUser(did_raise) ==
    /\ pc = "gather_cf"
    /\ IF cf.is_trained
       THEN /\ MayRaise(did_raise)
            /\ Gathered("collaborative",
                        CFGetRecommendations(cf, request.user_id,
                            Min(request.count * 2, CF_CANDIDATE_CAP),
                            request.exclude_events),
                        did_raise, "gather_cb")
       ELSE /\ ~did_raise
            /\ Gathered("collaborative", <<>>, FALSE, "gather_cb")

GatherCF(did_raise) ==
    /\ pc = "gather_cf"
    /\ IF UserType # "cold_start" /\ cf.is_trained
       THEN /\ MayRaise(did_raise)
            /\ Gathered("collaborative",
                        CFGetRecommendations(cf, request.user_id,
                            Min(request.count * 2, CF_CANDIDATE_CAP),
                            request.exclude_events),
                        did_raise, "gather_cb")
       ELSE /\ ~did_raise
            /\ Gathered("collaborative", <<>>, FALSE, "gather_cb")

GatherCB(n, did_raise) ==
    /\ pc = "gather_cb"
    /\ IF cbTrained
       THEN /\ MayRaise(did_raise)
            /\ did_raise => n = 0
            /\ Gathered("content",
                        CBCandidates(n, Min(request.count * 2, CF_CANDIDATE_CAP),
                                     request.exclude_events),
                        did_raise, "gather_pop")
       ELSE /\ ~did_raise /\ n = 0
            /\ Gathered("content", <<>>, FALSE, "gather_pop")

GatherPopularity(did_raise) ==
    /\ pc = "gather_pop"
    /\ MayRaise(did_raise)
    /\ Gathered("popularity",
                PopularityRecommendations(catalogLen,
                    Min(request.count, POPULARITY_CANDIDATE_CAP)),
                did_raise, "gather_loc")

GatherLocation(n, did_raise) ==
    /\ pc = "gather_loc"
    /\ IF request.location
       THEN /\ MayRaise(did_raise)
            /\ did_raise => n = 0
            /\ Gathered("location",
                        LocationRecommendations(n, Min(request.count, LOCATION_CANDIDATE_CAP)),
                        did_raise, "gather_trend")
       ELSE /\ ~did_raise /\ n = 0
            /\ pc' = "gather_trend"
            /\ UNCHANGED <<request, nInter, catalogLen, recs, keys, raised, hybrid,
                           response, cbTrained, cf, disk, cfOut, otherVars>>

GatherTrending(n, did_raise) ==
    /\ pc = "gather_trend"
    /\ MayRaise(did_raise)
    /\ did_raise => n = 0
    /\ Gathered("trending",
                TrendingRecommendations(n, Min(request.count \div 2, TRENDING_CANDIDATE_CAP)),
                did_raise, "combine")

(* an awaited scorer call that never completes: nothing in the handler      *)
(* bounds the wait, so the request stays where it is                        *)
ScorerNeverReturns ==
    /\ \/ pc = "gather_cf" /\ UserType # "cold_start" /\ cf.is_trained
       \/ pc = "gather_cb" /\ cbTrained
       \/ pc = "gather_pop"
       \/ pc = "gather_loc" /\ request.location
       \/ pc = "gather_trend"
    /\ pc' = "blocked"
    /\ UNCHANGED <<request, nInter, catalogLen, recs, keys, raised, hybrid,
                   response, cbTrained, cf, disk, cfOut, otherVars>>

Combine ==
    /\ pc = "combine"
    /\ hybrid' = CombineRecommendations(recs, keys, request, UserType)
    /\ pc' = "apply"
    /\ UNCHANGED <<request, nInter, catalogLen, recs, keys, raised, response,
                   cbTrained, cf, disk, cfOut, otherVars>>

(* diversity and exploration, then the response is built and returned *)
Respond(div_raises, expl_raises) ==
    /\ pc = "apply"
    /\ response' = BuildResponse(
                       ApplyDiversityAndExploration(hybrid, request, catalogLen,
                                                    div_raises, expl_raises),
                       recs, keys, nInter)
    /\ pc' = "responded"
    /\ UNCHANGED <<request, nInter, catalogLen, recs, keys, raised, hybrid,
                   cbTrained, cf, disk, cfOut, otherVars>>

(* the handler has returned; its locals are gone *)
Done ==
    /\ pc = "responded"
    /\ pc' = "idle"
    /\ request' = NoRequest
    /\ nInter' = 0
    /\ catalogLen' = 0
    /\ recs' = NoCandidates
    /\ keys' = <<>>
    /\ raised' = {}
    /\ hybrid' = <<>>
    /\ response' = NoResponse
    /\ UNCHANGED <<cbTrained, cf, disk, cfOut, otherVars>>

----------------------------------------------------------------------------
(* The analytics service: DataProcessor and RealTimeAnalyticsEngine.       *)
(* Time is the wall clock in whole minutes; an event carries the minute of  *)
(* its timestamp.  Values that are floats in the code (1.0, response times  *)
(* in milliseconds) are integers here.                                      *)

EVENT_QUEUE_MAXSIZE == 2
EVENT_BUFFER_MAXLEN == 16
REAL_TIME_WINDOW_SECONDS == 3
BASELINE_MAXLEN == 12
MaxProcessed == 4
MaxClock == 180

BASELINE_MINUTES == 10
MIN_BASELINE_SAMPLES == 10
THRESHOLD_MULTIPLIER == 2
UNUSUAL_TRAFFIC_MULTIPLIER == 2
HIGH_LATENCY_MS == 1000
SESSION_ACTIVE_MINUTES == 30
SESSION_EXPIRY_MINUTES == 120
CLEANUP_INTERVAL_MINUTES == 60

Metrics == {"page_views", "search_queries", "errors", "response_time"}

MetricMappings(event_type) ==
    CASE event_type = "event_view" -> {"page_views"}
      [] event_type = "search_query" -> {"search_queries"}
      [] OTHER -> {}

\* An AnalyticsEvent: session_key is "" when user_id or session_id is
\* missing, response_time is 0 when the property is absent.
AnalyticsEvent(event_type, session_key, response_time, minute) ==
    [event_type |-> event_type, session_key |-> session_key,
     response_time |-> response_time, timestamp |-> minute]

\* collections.deque(maxlen=n).append: a full deque drops its oldest entry
DequeAppend(d, x, maxlen) ==
    IF Len(d) >= maxlen THEN Append(Tail(d), x) ELSE Append(d, x)

RECURSIVE SumSeq(_)
SumSeq(s) == IF s = <<>> THEN 0 ELSE Head(s) + SumSeq(Tail(s))

\* DataProcessor.__init__
DPInitial ==
    [event_queue |-> <<>>,
     processing_stats |-> [events_processed |-> 0, errors |-> 0]]

\* RealTimeAnalyticsEngine.__init__ followed by initialize(); next_cleanup
\* is the minute at which _cleanup_loop wakes from its sleep
EngineInitial ==
    [event_buffer |-> <<>>,
     active_sessions |-> [k \in {} |-> 0],
     metric_windows |->
        [m \in Metrics |->
            [data |-> <<>>, timestamps |-> <<>>, sum |-> 0, count |-> 0,
             last_value |-> 0]],
     anomaly_detectors |-> [m \in Metrics |-> [baseline_values |-> <<>>]],
     processing_stats |-> [events_processed |-> 0, errors |-> 0],
     next_cleanup |-> CLEANUP_INTERVAL_MINUTES]

(* DataProcessor.queue_event: await event_queue.put(event).  Queue.put     *)
(* waits while the queue is full and never raises QueueFull, so the except *)
(* branch of queue_event is never taken: the caller is suspended instead.  *)
QueueEvent(event) ==
    /\ ingest = None
    /\ IF Len(dp.event_queue) < EVENT_QUEUE_MAXSIZE
         THEN /\ dp' = [dp EXCEPT !.event_queue = Append(@, event)]
              /\ ingest' = None
         ELSE /\ ingest' = [event |-> event]
              /\ dp' = dp
    /\ UNCHANGED <<hybridVars, cfVars, prev, call, pending, tasks,
                   clock, engine, emitted>>

(* the suspended put resumes once the worker has taken an event *)
PutResumes ==
    /\ ingest # None
    /\ Len(dp.event_queue) < EVENT_QUEUE_MAXSIZE
    /\ dp' = [dp EXCEPT !.event_queue = Append(@, ingest.event)]
    /\ ingest' = None
    /\ UNCHANGED <<hybridVars, cfVars, prev, call, pending, tasks,
                   clock, engine, emitted>>

(* one iteration of start_event_processing that finds the queue non-empty: *)
(* get the head and run _process_single_event, which counts the event as   *)
(* processed, or as an error when storing it raised.                       *)
ProcessSingleEvent(store_raises) ==
    /\ dp.event_queue # <<>>
    /\ dp' = [dp EXCEPT
                !.event_queue = Tail(@),
                !.processing_stats.events_processed =
                    IF store_raises THEN @ ELSE @ + 1,
                !.processing_stats.errors =
                    IF store_raises THEN @ + 1 ELSE @]
    /\ UNCHANGED <<hybridVars, cfVars, prev, call, pending, tasks,
                   clock, engine, ingest, emitted>>

\* the events of the buffer whose timestamp falls in the given minute
CountInMinute(buffer, minute) ==
    Cardinality({i \in 1..Len(buffer) : buffer[i].timestamp = minute})

(* _update_session_tracking: nothing without user_id and session_id;      *)
(* otherwise the session is created if new and its last_activity is now.   *)
UpdateSessionTracking(sessions, event, now) ==
    IF event.session_key = "" THEN sessions
    ELSE [k \in DOMAIN sessions \cup {event.session_key} |->
            IF k = event.session_key
              THEN [start_time |-> IF k \in DOMAIN sessions
                                     THEN sessions[k].start_time ELSE now,
                    last_activity |-> now]
              ELSE sessions[k]]

\* WindowAppend with a data ring that has no maxlen
WindowAppendUnbounded(window, value, timestamp) ==
    [data |-> Append(window.data, value),
     timestamps |-> DequeAppend(window.timestamps, timestamp,
                                REAL_TIME_WINDOW_SECONDS),
     sum |-> window.sum + value,
     count |-> window.count + 1,
     last_value |-> value]

\* one data point appended to a window: both rings, the sum, the count
WindowAppend(window, value, timestamp) ==
    [data |-> DequeAppend(window.data, value, REAL_TIME_WINDOW_SECONDS),
     timestamps |-> DequeAppend(window.timestamps, timestamp,
                                REAL_TIME_WINDOW_SECONDS),
     sum |-> window.sum + value,
     count |-> window.count + 1,
     last_value |-> value]

(* _update_metric_windows: a point 1.0 in every window mapped to the event *)
(* type, then the response time, if the event has one, in its own window.  *)
UpdateMetricWindows(windows, event) ==
    [m \in Metrics |->
        IF m \in MetricMappings(event.event_type)
          THEN WindowAppend(windows[m], 1, event.timestamp)
        ELSE IF m = "response_time" /\ event.response_time # 0
          THEN WindowAppend(windows[m], event.response_time, event.timestamp)
        ELSE windows[m]]

(* _trigger_alert: the alert goes out with the severity that               *)
(* _get_alert_severity derives from its type and data                      *)
TriggerAlert(alert) ==
    LET severity ==
            CASE alert.alert_type = "high_error_rate" ->
                    IF alert.error_count * 10 > alert.total_count
                      THEN "high" ELSE "medium"
              [] alert.alert_type = "high_latency" ->
                    IF alert.response_time > 5000 THEN "high" ELSE "medium"
              [] alert.alert_type = "traffic_spike" ->
                    IF alert.multiplier.num > 5 * alert.multiplier.den
                      THEN "medium" ELSE "low"
              [] OTHER -> "low"
    IN  alert @@ [severity |-> severity]

(* _check_error_rate_alert: payment failures among the buffered events of  *)
(* the last five minutes, error_count / total_count > 0.05.                *)
ErrorRateAlerts(buffer, now) ==
    LET recent == {i \in 1..Len(buffer) : buffer[i].timestamp >= now - 5}
        errors == {i \in recent : buffer[i].event_type = "payment_failed"}
    IN  IF recent # {} /\ Cardinality(errors) * 100 > 5 * Cardinality(recent)
          THEN {TriggerAlert([alert_type |-> "high_error_rate",
                              error_count |-> Cardinality(errors),
                              total_count |-> Cardinality(recent)])}
          ELSE {}

(* _check_traffic_spike_alert: current_count is the buffered events of the *)
(* wall-clock minute, baseline_avg the mean of the counts of the ten       *)
(* minutes before it; multiplier = current_count / baseline_avg is kept as *)
(* the fraction num / den.                                                 *)
BaselineSum(buffer, now) ==
    SumSeq([i \in 1..BASELINE_MINUTES |-> CountInMinute(buffer, now - i)])

\* TrafficSpikeAlerts with the threshold reached instead of exceeded
TrafficSpikeAlertsAtThreshold(buffer, now) ==
    LET current_count == CountInMinute(buffer, now)
        baseline_sum == BaselineSum(buffer, now)
    IN  IF baseline_sum > 0
           /\ current_count * BASELINE_MINUTES
                >= UNUSUAL_TRAFFIC_MULTIPLIER * baseline_sum
          THEN {TriggerAlert(
                    [alert_type |-> "traffic_spike",
                     current_count |-> current_count,
                     multiplier |-> [num |-> current_count * BASELINE_MINUTES,
                                     den |-> baseline_sum]])}
          ELSE {}

TrafficSpikeAlerts(buffer, now) ==
    LET current_count == CountInMinute(buffer, now)
        baseline_sum == BaselineSum(buffer, now)
    IN  IF baseline_sum > 0
           /\ current_count * BASELINE_MINUTES
                > UNUSUAL_TRAFFIC_MULTIPLIER * baseline_sum
          THEN {TriggerAlert(
                    [alert_type |-> "traffic_spike",
                     current_count |-> current_count,
                     multiplier |-> [num |-> current_count * BASELINE_MINUTES,
                                     den |-> baseline_sum]])}
          ELSE {}

CheckAlerts(buffer, event, now) ==
    (IF event.event_type = "payment_failed"
       THEN ErrorRateAlerts(buffer, now) ELSE {})
    \cup (IF event.response_time # 0 /\ event.response_time > HIGH_LATENCY_MS
            THEN {TriggerAlert([alert_type |-> "high_latency",
                                response_time |-> event.response_time])}
            ELSE {})
    \cup TrafficSpikeAlerts(buffer, now)

(* RealTimeAnalyticsEngine.process_event *)
ProcessEvent(event) ==
    LET buffer == DequeAppend(engine.event_buffer, event, EVENT_BUFFER_MAXLEN)
    IN  /\ engine' = [engine EXCEPT
                        !.event_buffer = buffer,
                        !.active_sessions =
                            UpdateSessionTracking(@, event, clock),
                        !.metric_windows = UpdateMetricWindows(@, event),
                        !.processing_stats.events_processed = @ + 1]
        /\ emitted' = [by |-> "process_event",
                       alerts |-> CheckAlerts(buffer, event, clock),
                       sessions |-> {}]
        /\ pending' = pending \cup
               {m \in Metrics : engine'.metric_windows[m].count
                                   > engine.metric_windows[m].count}
        /\ UNCHANGED <<hybridVars, cfVars, prev, call, tasks, clock, dp, ingest>>

(* the wall clock advances; a due session cleanup is not passed over *)
Tick(minutes) ==
    /\ clock + minutes <= MaxClock
    /\ clock + minutes <= engine.next_cleanup
    /\ clock' = clock + minutes
    /\ UNCHANGED <<hybridVars, cfVars, prev, call, pending, tasks,
                   engine, dp, ingest, emitted>>

(* one iteration of _compute_metrics_loop: the sum and count of every     *)
(* window that has points are reset, the rings are left alone.             *)
ComputeMetrics ==
    /\ engine' = [engine EXCEPT !.metric_windows =
                    [m \in Metrics |->
                        IF @[m].count > 0
                          THEN [@[m] EXCEPT !.sum = 0, !.count = 0]
                          ELSE @[m]]]
    /\ emitted' = [by |-> "compute_metrics", alerts |-> {}, sessions |-> {}]
    /\ UNCHANGED <<hybridVars, cfVars, prev, call, pending, tasks,
                   clock, dp, ingest>>

\* the test of _detect_anomalies_loop on one metric
IsAnomaly(window, detector) ==
    /\ window.count > 0
    /\ Len(detector.baseline_values) > MIN_BASELINE_SAMPLES
    /\ window.last_value * Len(detector.baseline_values)
         > THRESHOLD_MULTIPLIER * SumSeq(detector.baseline_values)

(* one iteration of _detect_anomalies_loop: every metric whose window has *)
(* points is tested against its baseline, then joins the baseline.         *)
DetectAnomalies ==
    /\ engine' = [engine EXCEPT !.anomaly_detectors =
                    [m \in Metrics |->
                        IF engine.metric_windows[m].count > 0
                          THEN [@[m] EXCEPT !.baseline_values =
                                  DequeAppend(@,
                                      engine.metric_windows[m].last_value,
                                      BASELINE_MAXLEN)]
                          ELSE @[m]]]
    /\ emitted' = [by |-> "detect_anomalies",
                   alerts |-> {TriggerAlert(
                                   [alert_type |-> "anomaly_detected",
                                    metric |-> m,
                                    current_value |->
                                        engine.metric_windows[m].last_value]) :
                               m \in {x \in Metrics :
                                   IsAnomaly(engine.metric_windows[x],
                                             engine.anomaly_detectors[x])}},
                   sessions |-> {}]
    /\ pending' = {}
    /\ UNCHANGED <<hybridVars, cfVars, prev, call, tasks, clock, dp, ingest>>

(* one iteration of _cleanup_loop, an hour after the previous one *)
Cleanup ==
    /\ clock >= engine.next_cleanup
    /\ engine' = [engine EXCEPT
                    !.active_sessions =
                        [k \in {x \in DOMAIN @ :
                                  ~(clock - @[x].last_activity
                                      > SESSION_EXPIRY_MINUTES)} |-> @[k]],
                    !.next_cleanup = clock + CLEANUP_INTERVAL_MINUTES]
    /\ emitted' = [by |-> "cleanup", alerts |-> {}, sessions |-> {}]
    /\ UNCHANGED <<hybridVars, cfVars, prev, call, pending, tasks,
                   clock, dp, ingest>>

(* get_active_sessions: the sessions whose last activity is less than 30  *)
(* minutes old                                                             *)
GetActiveSessions ==
    /\ emitted' = [by |-> "get_active_sessions", alerts |-> {},
                   sessions |-> {k \in DOMAIN engine.active_sessions :
                                   clock - engine.active_sessions[k].last_activity
                                     < SESSION_ACTIVE_MINUTES}]
    /\ UNCHANGED <<hybridVars, cfVars, prev, call, pending, tasks,
                   clock, engine, dp, ingest>>

Init ==
    /\ pc = "idle"
    /\ request = NoRequest
    /\ nInter = 0
    /\ catalogLen = 0
    /\ recs = NoCandidates
    /\ keys = <<>>
    /\ raised = {}
    /\ hybrid = <<>>
    /\ response = NoResponse
    /\ cbTrained = FALSE
    /\ cf = CFInitial
    /\ disk = NoFile
    /\ cfOut = None
    /\ prev = None
    /\ call = None
    /\ clock = 0
    /\ engine = EngineInitial
    /\ dp = DPInitial
    /\ ingest = None
    /\ emitted = [by |-> "none", alerts |-> {}, sessions |-> {}]
    /\ pending = {}
    /\ tasks = TasksInitial

Next ==
    \/ \E d \in {SmallSet, FirstSet}, ev \in BOOLEAN : TrainModels(d, ev)
    \/ \E u \in CFUsers, k \in 1..MaxCount, ex \in ExcludeChoices,
          df \in DiversityChoices, loc \in BOOLEAN, n \in InteractionCounts,
          c \in 0..MaxEvents :
          Request(u, k, ex, df, loc, n, c)
    \/ \E r \in BOOLEAN : GatherCF(r)
    \/ \E n \in 0..MaxEvents, r \in BOOLEAN : GatherCB(n, r)
    \/ \E r \in BOOLEAN : GatherPopularity(r)
    \/ \E n \in 0..1, r \in BOOLEAN : GatherLocation(n, r)
    \/ \E n \in 0..1, r \in BOOLEAN : GatherTrending(n, r)
    \/ ScorerNeverReturns
    \/ Combine
    \/ \E dr \in BOOLEAN, er \in BOOLEAN : Respond(dr, er)
    \/ Done

Spec == Init /\ [][Next]_vars

----------------------------------------------------------------------------
(* Actions of the collaborative-filtering recommender on its own: training, *)
(* persistence and inference, with the orchestrator idle.  cfOut holds the  *)
(* last answer of the current model; it is cleared when the model changes.  *)

(* train(): refused, failed in the fit (the exception is re-raised after    *)
(* the encoders and the matrix were replaced), or completed and saved       *)
CFTrain(interactions, fit_fails, write_completes) ==
    /\ cf' = Train(cf, interactions, fit_fails)
    /\ disk' = IF Len(interactions) < MIN_INTERACTIONS_FOR_CF \/ fit_fails
               THEN disk
               ELSE SaveModel(cf', write_completes)
    /\ cfOut' = None
    /\ UNCHANGED <<hybridVars, otherVars>>

CFLoadModel ==
    /\ cf' = LoadModel(cf, disk)
    /\ cfOut' = None
    /\ UNCHANGED <<hybridVars, otherVars, disk>>

CFInfer(user_id, count, exclude_events) ==
    /\ cfOut' = [user_id |-> user_id, count |-> count, exclude_events |-> exclude_events,
                 items |-> CFGetRecommendations(cf, user_id, count, exclude_events)]
    /\ UNCHANGED <<hybridVars, otherVars, cf, disk>>

(* the process is restarted: a new recommender object, the file stays *)
Restart ==
    /\ cf' = CFInitial
    /\ cfOut' = None
    /\ UNCHANGED <<hybridVars, otherVars, disk>>

(* the snapshot on disk is damaged, or was written with another layout: a   *)
(* key is missing                                                           *)
SnapshotLosesKey(k) ==
    /\ disk.state = "complete"
    /\ disk.missing = {}
    /\ disk' = [disk EXCEPT !.missing = {k}]
    /\ UNCHANGED <<hybridVars, otherVars, cf, cfOut>>

(* ... or the item factors have one row more than the event index *)
SnapshotDimensionMismatch ==
    /\ disk.state = "complete"
    /\ disk.missing = {}
    /\ disk.data.item_factors.rows = Len(disk.data.event_encoder)
    /\ disk' = [disk EXCEPT !.data.item_factors.rows = @ + 1]
    /\ UNCHANGED <<hybridVars, otherVars, cf, cfOut>>

CorruptibleKeys == {"user_encoder", "item_factors", "global_bias"}

NextCF ==
    \/ \E d \in TrainingSets, ff \in BOOLEAN, wc \in BOOLEAN : CFTrain(d, ff, wc)
    \/ CFLoadModel
    \/ \E u \in CFUsers, k \in 1..MaxCount, ex \in ExcludeChoices : CFInfer(u, k, ex)
    \/ Restart
    \/ \E k \in CorruptibleKeys : SnapshotLosesKey(k)
    \/ SnapshotDimensionMismatch

SpecCF == Init /\ [][NextCF]_vars

----------------------------------------------------------------------------
(* The post-processing pipeline on its own: one request whose candidates    *)
(* come from the CB scorer, with the categories of the returned events      *)
(* chosen freely, and from the popularity pool; no scorer raises.           *)

MaxPool == 4
MaxPipelineCount == 3

CategoryChoices == {"A", "B"}

(* CB _generate_explanation: one reason for each rule that applies to the  *)
(* event and the user profile, the first three of them                      *)
GenerateExplanation(category, tags, organizer, virtual, curation) ==
    LET reasons ==
            (IF category THEN <<"Matches your interest">> ELSE <<>>)
            \o (IF tags THEN <<"Related to">> ELSE <<>>)
            \o (IF organizer THEN <<"From an organizer">> ELSE <<>>)
            \o (IF virtual THEN <<"Matching your preference">> ELSE <<>>)
            \o (IF curation THEN <<"High-quality event">> ELSE <<>>)
    IN  {reasons[i] : i \in 1..Min(3, Len(reasons))}

(* the items CB builds for its top events, each with the category of the    *)
(* event's features.  The user profile prefers category "A"; the events     *)
(* have no tags, an organizer new to the user, and a curation score of at   *)
(* most 0.8, and the user has no marked virtual preference.                 *)
CBPool(cats) ==
    [i \in 1..Len(cats) |->
        Item(i, ScoreAt(i), 6 * Tenth, i, cats[i],
             GenerateExplanation(cats[i] = "A", FALSE, FALSE, FALSE, FALSE),
             "content_based")]

(* recommendations_by_algorithm when no scorer raises *)
GatheredCandidates(count, cats, pool_size) ==
    [NoCandidates EXCEPT
        !["content"] = CBPool(cats),
        !["popularity"] =
            PopularityRecommendations(pool_size, Min(count, POPULARITY_CANDIDATE_CAP))]

(* get_recommendations up to the end of candidate gathering: CF is skipped  *)
(* (untrained), CB returns `cats`-many events, popularity returns the head  *)
(* of the pool, no location, trending returns nothing                       *)
RequestGathered(count, cats, pool_size, diversity, level) ==
    /\ pc = "idle"
    /\ cbTrained
    /\ ~cf.is_trained
    /\ Len(cats) <= Min(count * 2, CF_CANDIDATE_CAP)
    /\ request' = [user_id |-> 1, count |-> count, exclude_events |-> {},
                   diversity_factor |-> diversity, location |-> FALSE,
                   explanation_level |-> level]
    /\ nInter' = MIN_INTERACTIONS_FOR_CF
    /\ catalogLen' = pool_size
    /\ recs' = GatheredCandidates(count, cats, pool_size)
    /\ keys' = <<"collaborative", "content", "popularity", "trending">>
    /\ raised' = {}
    /\ hybrid' = <<>>
    /\ response' = NoResponse
    /\ pc' = "combine"
    /\ prev' = [cats |-> cats, response |-> NoResponse]
    /\ UNCHANGED <<cbTrained, cf, disk, cfOut, call, analyticsVars>>

(* the same request is made a second time: same preferences, interactions   *)
(* and models, so every scorer is called again with the same arguments      *)
Repeat ==
    /\ pc = "responded"
    /\ prev # None
    /\ prev.response = NoResponse
    /\ prev' = [prev EXCEPT !.response = response]
    /\ recs' = GatheredCandidates(request.count, prev.cats, catalogLen)
    /\ keys' = <<"collaborative", "content", "popularity", "trending">>
    /\ raised' = {}
    /\ hybrid' = <<>>
    /\ response' = NoResponse
    /\ pc' = "combine"
    /\ UNCHANGED <<request, nInter, catalogLen, cbTrained, cf, disk, cfOut,
                   call, analyticsVars>>

NextPipeline ==
    \/ TrainModels(SmallSet, TRUE)
    \/ \E k \in 1..MaxPipelineCount, n \in 0..MaxPool, c \in 0..MaxEvents,
          df \in DiversityChoices, level \in {"none", "basic"} :
          \E cats \in [1..n -> CategoryChoices] :
              RequestGathered(k, cats, c, df, level)
    \/ Repeat
    \/ Combine
    \/ Respond(FALSE, FALSE)
    \/ Done

SpecPipeline == Init /\ [][NextPipeline]_vars

----------------------------------------------------------------------------
(* The analytics service under four loads.                                 *)

\* events handed to the DataProcessor
IngestEvents ==
    {AnalyticsEvent(t, "", 0, 0) : t \in {"event_view", "search_query",
                                          "payment_failed"}}

NextIngest ==
    \/ \E e \in IngestEvents : QueueEvent(e)
    \/ PutResumes
    \/ \E store_raises \in BOOLEAN :
          /\ dp.processing_stats.events_processed
               + dp.processing_stats.errors < MaxProcessed
          /\ ProcessSingleEvent(store_raises)
    \/ \E e \in IngestEvents :
          /\ engine.processing_stats.events_processed < MaxProcessed
          /\ ProcessEvent(e)

SpecIngest == Init /\ [][NextIngest]_vars

\* events that feed the metric windows: page views with a response time in
\* milliseconds, 0 for an event without one
MetricEvents ==
    {AnalyticsEvent("event_view", "", rt, 0) : rt \in {0, 200, 1200}}

NextMetrics ==
    \/ \E e \in MetricEvents :
          /\ engine.processing_stats.events_processed < MaxProcessed
          /\ ProcessEvent(e)
    \/ ComputeMetrics
    \/ DetectAnomalies

SpecMetrics == Init /\ [][NextMetrics]_vars

SessionKeys == {"u1:s1", "u2:s2"}
SessionTicks == {30, 60}

NextSessions ==
    \/ \E k \in SessionKeys :
          /\ engine.processing_stats.events_processed < MaxProcessed
          /\ ProcessEvent(AnalyticsEvent("event_view", k, 0, clock))
    \/ \E d \in SessionTicks : Tick(d)
    \/ Cleanup
    \/ GetActiveSessions

SpecSessions == Init /\ [][NextSessions]_vars

\* the traffic of the spike scenario, scaled down by 100: at most one event
\* in each of the first ten minutes, at most six in the eleventh
BaselineRate == 1
SpikeRate == 6

NextSpike ==
    \/ /\ CountInMinute(engine.event_buffer, clock)
            < (IF clock < BASELINE_MINUTES THEN BaselineRate ELSE SpikeRate)
       /\ ProcessEvent(AnalyticsEvent("event_view", "", 0, clock))
    \/ /\ clock < BASELINE_MINUTES
       /\ Tick(1)

SpecSpike == Init /\ [][NextSpike]_vars

----------------------------------------------------------------------------
(* _interaction_to_rating called on its own, on interactions of every type, *)
(* with and without explicit rating, and with view durations around the two *)
(* thresholds.                                                              *)

(* the service with its loops running and stop_background_workers called   *)
(* at any moment; an iteration of a loop needs its task to be waiting and, *)
(* for a worker loop, the worker's is_running                              *)
NextShutdown ==
    \/ QueueEvent(AnalyticsEvent("event_view", "", 0, 0))
    \/ PutResumes
    \/ \E store_raises \in BOOLEAN :
          /\ tasks.status["event_processing"] = "waiting"
          /\ tasks.is_running[WorkerLoops["event_processing"]]
          /\ dp.processing_stats.events_processed
               + dp.processing_stats.errors < MaxProcessed
          /\ ProcessSingleEvent(store_raises)
    \/ tasks.status["compute_metrics"] = "waiting" /\ ComputeMetrics
    \/ tasks.status["detect_anomalies"] = "waiting" /\ DetectAnomalies
    \/ StopBackgroundWorkers
    \/ \E t \in DOMAIN tasks.status : TaskCancelled(t)
    \/ GatherReturns

\* the event loop resumes every task that is ready to run
SpecShutdown ==
    /\ Init
    /\ [][NextShutdown]_vars
    /\ \A t \in EngineLoops \cup DOMAIN WorkerLoops : WF_vars(TaskCancelled(t))
    /\ WF_vars(GatherReturns)

InteractionToRatingCalled(interaction) ==
    /\ call' = [interaction |-> interaction,
                result |-> InteractionToRating(interaction)]
    /\ UNCHANGED <<hybridVars, cfVars, prev, analyticsVars>>

NextRating ==
    \E t \in {"register", "like", "save", "share", "comment", "click", "view",
              "bookmark"},
       r \in 0..5, d \in {0, 30, 59, 60, 61, 299, 300, 301, 600} :
        InteractionToRatingCalled(Interaction(1, 1, t, r, d))

SpecRating == Init /\ [][NextRating]_vars

----------------------------------------------------------------------------
(* Properties *)

Recommended == response.recommendations
Responded == pc = "responded"
KeySet == {keys[i] : i \in 1..Len(keys)}
ExpectedKeys ==
    {"collaborative", "content", "popularity", "trending"}
    \cup (IF request.location THEN {"location"} ELSE {})
CandidateIds == UNION {EventIds(recs[a]) : a \in Algorithms}
IsExploration(rec) == "Explore something new" \in rec.reasons

C2_ScoresConfidencesRanks ==
    Responded =>
        \A i \in 1..Len(Recommended) :
            /\ 0 <= Recommended[i].score /\ Recommended[i].score <= One
            /\ 0 <= Recommended[i].confidence /\ Recommended[i].confidence <= One
            /\ Recommended[i].rank = i

(* a response of two items, one of them injected by the exploration step,   *)
(* whose order differs from the order of the merge                          *)
C2_Witness ==
    /\ Responded
    /\ Len(Recommended) = 2
    /\ \E i \in 1..2 : IsExploration(Recommended[i])
    /\ Len(hybrid) >= 2
    /\ Recommended[1].event_id # hybrid[1].event_id

(* C3: the response is empty only on total collapse: when some scorer       *)
(* returned a candidate that is not excluded, the response has an item.     *)
C3_NonEmptyUnlessCollapse ==
    (Responded /\ CandidateIds \ request.exclude_events # {})
        => Len(Recommended) >= 1

(* C8: when neither CF nor CB is trained, the response has                  *)
(* fallback_used = true, however many interactions the user has.            *)
C8_FallbackFlagWhenNoModel ==
    (Responded /\ ~cf.is_trained /\ ~cbTrained) => response.fallback_used

(* C9: a scorer that raises during candidate gathering contributes an empty *)
(* list, every other scorer is still invoked, and the request is answered   *)
(* from the candidates of the others.                                       *)
C9_ScorerFailureContained ==
    /\ \A a \in raised : a \in KeySet /\ recs[a] = <<>>
    /\ pc \in {"combine", "apply", "responded"} => KeySet = ExpectedKeys
    /\ Responded =>
          /\ response # NoResponse
          /\ \A i \in 1..Len(Recommended) :
                \/ Recommended[i].event_id \in CandidateIds
                \/ IsExploration(Recommended[i])

(* a scorer raised and the response still carries items of another scorer *)
C9_Witness ==
    /\ Responded
    /\ raised # {}
    /\ \E i \in 1..Len(Recommended) : Recommended[i].event_id \in CandidateIds

(* the steps of the request handler *)
HandlerStep ==
    \/ \E r \in BOOLEAN : GatherCF(r)
    \/ \E n \in 0..MaxEvents, r \in BOOLEAN : GatherCB(n, r)
    \/ \E r \in BOOLEAN : GatherPopularity(r)
    \/ \E n \in 0..1, r \in BOOLEAN : GatherLocation(n, r)
    \/ \E n \in 0..1, r \in BOOLEAN : GatherTrending(n, r)
    \/ Combine
    \/ \E dr \in BOOLEAN, er \in BOOLEAN : Respond(dr, er)

(* C10: a request is answered even if a scorer never returns: while it is   *)
(* in flight the handler can always take its next step (after the deadline, *)
(* with an empty list for the scorer that timed out).                       *)
C10_RequestNeverStuck ==
    (request # NoRequest /\ ~Responded) => ENABLED HandlerStep

(* C4: a get_recommendations call on a trained model reads index maps,      *)
(* interaction matrix, factors and biases of one training run, also after a *)
(* retraining that failed part-way.                                         *)
C4_NoMixedModelObserved ==
    (cfOut # None /\ cf.is_trained) => SameRun(cf)

CorruptSnapshot(file) ==
    /\ file.state = "complete"
    /\ \/ file.missing # {}
       \/ file.data.item_factors.rows # Len(file.data.event_encoder)

(* C5: load_model of a corrupt snapshot (a field missing, or of mismatched  *)
(* dimension) leaves every field of the model as it was.                    *)
C5_CorruptSnapshotRejected ==
    [][(CFLoadModel /\ CorruptSnapshot(disk)) => cf' = cf]_vars

(* C6: model persistence is atomic: the file at the model path is always    *)
(* absent or a complete snapshot, never a partially written one.            *)
C6_FileNeverPartial ==
    disk.state \in {"absent", "complete"}

(* C7: CF inference returns the popularity fallback both when the model is  *)
(* untrained and when the user is absent from the user index.               *)
C7_PopularityFallbackServed ==
    (cfOut # None /\ (~cf.is_trained \/ ~Contains(cf.user_encoder, cfOut.user_id)))
        => cfOut.items = PopularityBasedRecommendations(cf, cfOut.count,
                                                        cfOut.exclude_events)

CeilDiv(a, b) == (a + b - 1) \div b
PoolCategories == {CategoryKey(hybrid[i]) : i \in 1..Len(hybrid)}
CountInCategory(c) ==
    Cardinality({i \in 1..Len(Recommended) : CategoryKey(Recommended[i]) = c})

(* C11: for a request with diversity_factor = 1 and count K, no category    *)
(* holds more than ceil(K / C) items of the final response, C being the     *)
(* number of distinct categories of the merged candidate pool.              *)
C11_CategoryShareBounded ==
    (Responded /\ request.diversity_factor = 100 /\ hybrid # <<>>)
        => \A c \in PoolCategories \cup {"A", "B", "unknown"} :
              CountInCategory(c)
                  <= CeilDiv(request.count, Cardinality(PoolCategories))

FreshInPool ==
    {PopularityOrder(catalogLen)[i] : i \in 1..catalogLen} \ EventIds(hybrid)
ExplorationQuota == CeilDiv(request.count * EXPLORATION_FACTOR, 100)
ExplorationItems ==
    {i \in 1..Len(Recommended) : IsExploration(Recommended[i])}

C14_ColdStartSkipsCF ==
    /\ (request # NoRequest /\ nInter = 0)
          => /\ recs["collaborative"] = <<>>
             /\ "collaborative" \notin raised
             /\ pc = "blocked" => keys # <<>>
    /\ Responded => (response.cold_start_user <=> nInter = 0)

(* a user without interactions is answered while CF is trained and has      *)
(* candidates for that user                                                 *)
C14_Witness ==
    /\ Responded
    /\ nInter = 0
    /\ response.cold_start_user
    /\ cf.is_trained
    /\ CFGetRecommendations(cf, request.user_id, request.count * 2,
                            request.exclude_events) # <<>>
    /\ Recommended # <<>>

(* the derived rating of the last interaction of the pair (u, e), 0 when    *)
(* the pair does not occur                                                  *)
LatestRating(interactions, u, e) ==
    LET at == {i \in 1..Len(interactions) :
                  interactions[i].user_id = u /\ interactions[i].event_id = e}
    IN  IF at = {} THEN 0
        ELSE InteractionToRating(
                 interactions[CHOOSE i \in at : \A j \in at : j <= i])

LatestWinsMatrix(interactions) ==
    LET m == BuildMatrix(interactions)
    IN  [m EXCEPT !.R = [i \in 1..Len(m.users) |->
                            [j \in 1..Len(m.events) |->
                                LatestRating(interactions, m.users[i], m.events[j])]]]

(* C18: when a (user, event) pair occurs more than once in the training     *)
(* interactions, the cell of R holds the derived rating of the latest of    *)
(* them: the matrix after train() is the latest-wins matrix of the          *)
(* interactions it was given.                                               *)
C18_DuplicatePairsLatestWins ==
    IsNone(cf.interaction_matrix)
    \/ \E d \in TrainingSets : cf.interaction_matrix = LatestWinsMatrix(d)

(* C15: ingest never blocks.  A queue_event call that finds the event      *)
(* queue full returns without waiting, the oldest queued event is dropped  *)
(* to make room for the new one, and the error counter grows by one.       *)
C15_IngestNeverBlocks ==
    [][\A e \in IngestEvents :
          (QueueEvent(e) /\ Len(dp.event_queue) = EVENT_QUEUE_MAXSIZE)
             => /\ ingest' = None
                /\ dp'.event_queue = Append(Tail(dp.event_queue), e)
                /\ dp'.processing_stats.errors
                     = dp.processing_stats.errors + 1]_vars

(* C16: after any sequence of process_event calls and background flushes,  *)
(* every sliding window holds at most REAL_TIME_WINDOW_SECONDS entries and *)
(* its data ring and its timestamp ring have the same length.              *)
C16_WindowsBounded ==
    \A m \in Metrics :
        /\ Len(engine.metric_windows[m].data) <= REAL_TIME_WINDOW_SECONDS
        /\ Len(engine.metric_windows[m].data)
             = Len(engine.metric_windows[m].timestamps)

\* more page views than the window holds were processed, the response-time
\* window is full as well, and a flush has reset the counts since
C16_Witness ==
    /\ engine.processing_stats.events_processed > REAL_TIME_WINDOW_SECONDS
    /\ Len(engine.metric_windows["page_views"].data)
         = REAL_TIME_WINDOW_SECONDS
    /\ Len(engine.metric_windows["response_time"].data)
         = REAL_TIME_WINDOW_SECONDS
    /\ engine.metric_windows["page_views"].count = 0
    /\ engine.event_buffer[1].response_time # 0

(* C17: a session expires after 30 minutes idle.  After any run of the     *)
(* hourly session cleanup the session map holds no session whose last      *)
(* activity is more than 30 minutes old, and a session idle for more than  *)
(* 30 minutes is never reported as active.                                 *)
C17_SessionsExpire ==
    [][/\ Cleanup =>
            \A k \in DOMAIN engine'.active_sessions :
                clock' - engine'.active_sessions[k].last_activity
                    <= SESSION_ACTIVE_MINUTES
       /\ GetActiveSessions =>
            \A k \in emitted'.sessions :
                clock' - engine'.active_sessions[k].last_activity
                    <= SESSION_ACTIVE_MINUTES]_vars

\* the alert of the anomaly detector for the current value of a metric
AnomalyAlert(m) ==
    [alert_type |-> "anomaly_detected", metric |-> m,
     current_value |-> engine.metric_windows[m].last_value,
     severity |-> "low"]

(* C19: a run of the anomaly detector flags the current value of a metric  *)
(* exactly when at least 10 baseline samples exist and the value exceeds   *)
(* threshold_multiplier (2.0) times the mean of the baseline: flagged with *)
(* exactly 10 samples and a value above the threshold, never with fewer.   *)
C19_AnomalyFlagged ==
    [][DetectAnomalies =>
          \A m \in {x \in Metrics : engine.metric_windows[x].count > 0} :
              AnomalyAlert(m) \in emitted'.alerts
                <=> LET baseline == engine.anomaly_detectors[m].baseline_values
                    IN  /\ Len(baseline) >= MIN_BASELINE_SAMPLES
                        /\ engine.metric_windows[m].last_value * Len(baseline)
                             > THRESHOLD_MULTIPLIER * SumSeq(baseline)]_vars

\* how many events of the buffer have their timestamp in minutes lo..hi
BufferedBetween(buffer, lo, hi) ==
    Cardinality({i \in 1..Len(buffer) :
                    buffer[i].timestamp >= lo /\ buffer[i].timestamp <= hi})

\* the traffic_spike alerts among the alerts of the last step
SpikeAlerts(alerts) == {a \in alerts : a.alert_type = "traffic_spike"}

(* C20: after an event is processed, a traffic_spike alert is emitted if   *)
(* and only if the number of buffered events of the current minute divided *)
(* by the mean per-minute count of the previous 10 minutes exceeds 2.0,    *)
(* and the alert's multiplier equals that ratio; after ten minutes of r    *)
(* events each and 6r events in the next minute (r = 100 in full scale),   *)
(* the alert is emitted with multiplier 6.                                 *)
C20_TrafficSpike ==
    [][ProcessEvent(AnalyticsEvent("event_view", "", 0, clock)) =>
          LET buffer == engine'.event_buffer
              current == BufferedBetween(buffer, clock', clock')
              previous == BufferedBetween(buffer, clock' - 10, clock' - 1)
              spikes == SpikeAlerts(emitted'.alerts)
          IN  /\ spikes # {} <=> (previous > 0 /\ current * 10 > 2 * previous)
              /\ \A a \in spikes :
                    a.multiplier.num * previous = a.multiplier.den * current * 10
              /\ \A r \in 1..BaselineRate :
                    ((\A i \in 1..10 :
                          BufferedBetween(buffer, clock' - i, clock' - i) = r)
                     /\ current = 6 * r)
                    => \E a \in spikes : a.multiplier.num = 6 * a.multiplier.den
       ]_vars

\* the scenario has run: one event in each of ten minutes, six in the
\* eleventh, and the sixth has raised the alert with multiplier 6
C20_Witness ==
    /\ emitted.by = "process_event"
    /\ \A i \in 1..10 :
          BufferedBetween(engine.event_buffer, clock - i, clock - i) = 1
    /\ BufferedBetween(engine.event_buffer, clock, clock) = 6
    /\ \E a \in SpikeAlerts(emitted.alerts) :
          a.multiplier.num = 6 * a.multiplier.den

(* C21: every item of a response to a request whose explanation_level is   *)
(* not "none" has a non-empty reasons list, whichever scorer produced it.  *)
C21_ReasonsNonEmpty ==
    (Responded /\ request.explanation_level # "none")
        => \A i \in 1..Len(Recommended) : Recommended[i].reasons # {}

\* the rating table of the spec, in tenths
TableRating(interaction_type, duration_seconds) ==
    LET base == CASE interaction_type = "register" -> 50
                  [] interaction_type \in {"like", "save", "share"} -> 40
                  [] interaction_type = "comment" -> 35
                  [] interaction_type = "click" -> 30
                  [] OTHER -> 20
        bonus == IF interaction_type # "view" THEN 0
                 ELSE IF duration_seconds >= 300 THEN 10
                 ELSE IF duration_seconds >= 60 THEN 5
                 ELSE 0
    IN  base + bonus

(* C22: the derived rating of an interaction without explicit rating       *)
(* follows the table for every type and duration (register 5.0, like, save *)
(* and share 4.0, comment 3.5, click 3.0, view 2.0 plus 1.0 from 300 s on  *)
(* and plus 0.5 from 60 s to below 300 s, any other type 2.0) and never    *)
(* exceeds 5.0: a view of exactly 300 s rates 3.0, one of 60 s rates 2.5.  *)
C22_DerivedRatingFollowsTable ==
    (call # None /\ call.interaction.rating = 0)
        => /\ call.result = TableRating(call.interaction.interaction_type,
                                        call.interaction.duration_seconds)
           /\ call.result <= 50

(* C23: alert severity is derived from magnitude.  A high_error_rate alert *)
(* with error_rate > 0.1, a high_latency alert with response_time > 5000   *)
(* ms and a traffic_spike alert with multiplier > 5 each get severity      *)
(* "high".                                                                 *)
C23_SeverityFromMagnitude ==
    \A a \in emitted.alerts :
        /\ (a.alert_type = "high_error_rate"
              /\ a.error_count * 10 > a.total_count) => a.severity = "high"
        /\ (a.alert_type = "high_latency"
              /\ a.response_time > 5000) => a.severity = "high"
        /\ (a.alert_type = "traffic_spike"
              /\ a.multiplier.num > 5 * a.multiplier.den) => a.severity = "high"

\* the weights _adjust_weights returned to the merge of the request in hand
AdjustedWeights == AdjustWeights(UserType, recs, keys)

(* C24: after _adjust_weights, for every user type and every combination   *)
(* of empty and non-empty CF and CB candidate lists, the weights are       *)
(* non-negative and sum to 1, and an algorithm among CF and CB that        *)
(* returned no candidates has weight 0, also when both returned nothing.   *)
C24_WeightsRedistributed ==
    pc \in {"apply", "responded"}
        => /\ \A k \in DOMAIN AdjustedWeights : AdjustedWeights[k] >= 0
           /\ AdjustedWeights.collaborative + AdjustedWeights.content
                + AdjustedWeights.popularity + AdjustedWeights.diversity = WUnit
           /\ \A a \in {"collaborative", "content"} :
                 (InKeys(keys, a) /\ recs[a] = <<>>) => AdjustedWeights[a] = 0

(* C25: in the final response the items are ordered by non-increasing      *)
(* score, score(r) >= score(r+1) for consecutive ranks, after merge,       *)
(* diversification, exploration injection and truncation, for every        *)
(* diversity_factor.                                                       *)
C25_OrderedByScore ==
    Responded
        => \A i \in 1..(Len(Recommended) - 1) :
              Recommended[i].score >= Recommended[i + 1].score

\* three items of strictly falling score, the first two of one category and
\* the third of another: the round robin of the diversification had put the
\* third before the second
C25_Witness ==
    /\ Responded
    /\ Len(Recommended) = 3
    /\ Recommended[1].score > Recommended[2].score
    /\ Recommended[2].score > Recommended[3].score
    /\ Recommended[1].category = Recommended[2].category
    /\ Recommended[3].category # Recommended[1].category

(* C26: the exploration step only adds.  When the popularity pool offers   *)
(* no event that is not already selected, _add_exploration_items returns   *)
(* its input unchanged, so a merged pool of N candidates yields a response *)
(* of min(request.count, N) items.                                         *)
C26_ExplorationOnlyAdds ==
    (Responded /\ FreshInPool = {})
        => Len(Recommended) = Min(request.count, Len(hybrid))

(* the recommender that trained and wrote the snapshot: the fields of the   *)
(* file, and the interaction matrix the factors were fitted to              *)
SnapshotWriter ==
    [LoadModel(CFInitial, disk) EXCEPT !.interaction_matrix = disk.data.item_factors.of]

EventIdSeq(items) == [k \in 1..Len(items) |-> items[k].event_id]

C28_DetectorSkipsNoMetric ==
    [][DetectAnomalies =>
          \A m \in pending :
              engine'.anomaly_detectors[m].baseline_values =
                  DequeAppend(engine.anomaly_detectors[m].baseline_values,
                              engine.metric_windows[m].last_value,
                              BASELINE_MAXLEN)]_vars

(* C29: for every sliding window, in every reachable state, the rolling    *)
(* sum and count equal the sum and the number of the entries held in its   *)
(* ring buffer, across appends, evictions and the periodic flush.          *)
C29_SumAndCountMatchRing ==
    \A m \in Metrics :
        /\ engine.metric_windows[m].sum = SumSeq(engine.metric_windows[m].data)
        /\ engine.metric_windows[m].count = Len(engine.metric_windows[m].data)

AllLoops == EngineLoops \cup DOMAIN WorkerLoops

(* C30: every background loop can be stopped: after shutdown is requested, *)
(* each long-lived loop (metric flush, trend analysis, anomaly detection   *)
(* and session cleanup of the engine, and the data-processor, report and   *)
(* aggregation worker loops) eventually terminates, and once the event     *)
(* loop of the data processor has terminated no further event is processed.*)
C30_EveryLoopStops ==
    /\ (tasks.stop # "idle") ~> (\A t \in AllLoops : tasks.status[t] = "done")
    /\ [][tasks.status["event_processing"] = "done"
             => dp'.processing_stats = dp.processing_stats]_vars

\* the part of C30 about the loops of the workers
C30_WorkerLoopsStop ==
    /\ (tasks.stop # "idle")
          ~> (\A t \in DOMAIN WorkerLoops : tasks.status[t] = "done")
    /\ [][tasks.status["event_processing"] = "done"
             => dp'.processing_stats = dp.processing_stats]_vars

\* the part of C30 about the loops of the engine
C30_EngineLoopsNeverStop ==
    \A t \in EngineLoops : tasks.status[t] = "waiting"

====
